---- MODULE Spec2Model ----
(***************************************************************************)
(* State-machine model of the IncludeBlock executable node                 *)
(* (rust/node-execute/src/include_block.rs): the compile phase with its    *)
(* source resolution, directory stack, patches and compilation messages,   *)
(* and the execute phase that binds the node's arguments into the kernels. *)
(*                                                                         *)
(* Text (sources, paths, argument code, variable names) is modelled as a   *)
(* sequence of one-character strings so that trim, starts_with, join and   *)
(* parent are computed, not assumed.  Option<T> is a sequence of length    *)
(* zero (None) or one (Some(v)).                                           *)
(***************************************************************************)
EXTENDS Integers, Sequences, FiniteSets, TLC

\* ------------------------------------------------------------------ bounds

\* Deepest level at which an included document may itself hold include blocks.
MaxDepth == 2

\* ------------------------------------------------------------------ Option

None == <<>>
Some(v) == <<v>>
IsSome(o) == Len(o) = 1
Unwrap(o) == o[1]

\* ------------------------------------------------------------------ text

IsWhitespace(c) == c \in {" ", "\t", "\n"}

RECURSIVE TrimStart(_)
TrimStart(s) ==
    IF s /= <<>> /\ IsWhitespace(Head(s)) THEN TrimStart(Tail(s)) ELSE s

RECURSIVE TrimEnd(_)
TrimEnd(s) ==
    IF s /= <<>> /\ IsWhitespace(s[Len(s)])
    THEN TrimEnd(SubSeq(s, 1, Len(s) - 1))
    ELSE s

\* str::trim
Trim(s) == TrimEnd(TrimStart(s))

\* str::starts_with / str::ends_with
StartsWith(s, pre) == Len(s) >= Len(pre) /\ SubSeq(s, 1, Len(pre)) = pre
EndsWith(s, suf) ==
    Len(s) >= Len(suf) /\ SubSeq(s, Len(s) - Len(suf) + 1, Len(s)) = suf

Https == <<"h", "t", "t", "p", "s", ":", "/", "/">>
Http == <<"h", "t", "t", "p", ":", "/", "/">>

\* ------------------------------------------------------------------ paths

Sep == "/"

\* Trailing separators carry no component (std::path ignores them), the root
\* itself excepted.
RECURSIVE StripTrailingSep(_)
StripTrailingSep(p) ==
    IF Len(p) > 1 /\ p[Len(p)] = Sep
    THEN StripTrailingSep(SubSeq(p, 1, Len(p) - 1))
    ELSE p

\* Position of the last separator of p, 0 when there is none.
RECURSIVE LastSep(_)
LastSep(p) ==
    IF p = <<>> THEN 0
    ELSE IF p[Len(p)] = Sep THEN Len(p)
    ELSE LastSep(SubSeq(p, 1, Len(p) - 1))

\* Path::join (PathBuf::push): an absolute argument replaces the base.
PathJoin(dir, source) ==
    IF StartsWith(source, <<Sep>>) THEN source
    ELSE IF dir = <<>> THEN source
    ELSE IF dir[Len(dir)] = Sep THEN dir \o source
    ELSE dir \o <<Sep>> \o source

\* Path::parent: None for the empty path and for the root, otherwise the path
\* without its final component (the empty path for a single relative name).
PathParent(path) ==
    LET p == StripTrailingSep(path)
        k == LastSep(p)
    IN  IF p = <<>> \/ p = <<Sep>> THEN None
        ELSE IF k = 0 THEN Some(<<>>)
        ELSE IF k = 1 THEN Some(<<Sep>>)
        ELSE Some(StripTrailingSep(SubSeq(p, 1, k - 1)))

\* Vec::last
Last(stack) == IF stack = <<>> THEN None ELSE Some(stack[Len(stack)])

\* Vec::pop (a pop of an empty vector does nothing)
Pop(stack) == IF stack = <<>> THEN stack ELSE SubSeq(stack, 1, Len(stack) - 1)

\* ------------------------------------------------------------------ nodes

\* A node of the document tree.  `content` is Some(n) when the node holds n
\* blocks; block i of the node at position p is the node at position p \o <<i>>.
IncludeBlock(source) ==
    [kind |-> "IncludeBlock", source |-> source, content |-> None,
     compilation_messages |-> None]

Paragraph ==
    [kind |-> "Paragraph", source |-> <<>>, content |-> None,
     compilation_messages |-> None]

NoNode ==
    [kind |-> "NoNode", source |-> <<>>, content |-> None,
     compilation_messages |-> None]

\* Sources an author may give the document's include block.
SrcEmpty == <<>>
SrcSpaces == <<" ", " ">>
SrcFile == <<"a">>
SrcSub == <<"s", "/", "a">>
SrcAbsolute == <<"/", "r", "/", "a">>
SrcRootDir == <<"/">>
SrcHttp == Http \o <<"h", "/", "a">>
SrcHttps == Https \o <<"h", "/", "a">>
SrcNested == <<"t", "/", "b">>

Sources ==
    {SrcEmpty, SrcSpaces, SrcFile, SrcSub, SrcAbsolute, SrcRootDir, SrcHttp,
     SrcHttps}

\* Documents the codec may decode an identifier into (sequences of blocks).
DocEmpty == <<>>
DocNested == <<Paragraph, IncludeBlock(SrcNested)>>
DocSiblings == <<IncludeBlock(SrcEmpty), IncludeBlock(SrcHttp)>>

DocPool == {DocEmpty, DocNested, DocSiblings}

Width == CHOOSE n \in 0..8 : /\ \A d \in DocPool : Len(d) <= n
                             /\ \E d \in DocPool : Len(d) = n

\* Positions in the tree: the document's include block is the root.
Root == <<>>
Positions == UNION {[1..n -> 1..Width] : n \in 0..MaxDepth}

IsBelow(q, p) == Len(q) > Len(p) /\ SubSeq(q, 1, Len(p)) = p

NumBlocks(t, p) == IF IsSome(t[p].content) THEN Unwrap(t[p].content) ELSE 0

\* The blocks held by the node at p, as a sequence of nodes.
ContentOf(t, p) ==
    IF IsSome(t[p].content)
    THEN Some([i \in 1..Unwrap(t[p].content) |-> t[p \o <<i>>]])
    ELSE None

\* self.content = content: the whole subtree below p is replaced.
SetContent(t, p, content) ==
    [q \in Positions |->
        IF q = p
        THEN [t[p] EXCEPT !.content =
                 IF IsSome(content) THEN Some(Len(Unwrap(content))) ELSE None]
        ELSE IF IsBelow(q, p)
        THEN IF /\ IsSome(content)
                /\ Len(q) = Len(p) + 1
                /\ q[Len(q)] <= Len(Unwrap(content))
             THEN Unwrap(content)[q[Len(q)]]
             ELSE NoNode
        ELSE t[q]]

\* ------------------------------------------------------------------ messages and patches

ErrorMessage(text) == [level |-> "Error", message |-> text]

\* error_to_compilation_message
error_to_compilation_message(error) == ErrorMessage(error)

\* Patch operations on a node property.
none(property) == [op |-> "none", property |-> property, value |-> None]
append(property, value) == [op |-> "append", property |-> property, value |-> value]
set(property, value) == [op |-> "set", property |-> property, value |-> value]

\* Executor::patch: one emission of an ordered list of operations for a node.
patch(sink, node_id, ops) == Append(sink, [node_id |-> node_id, ops |-> ops])

\* ------------------------------------------------------------------ codec

DecodeError == [tag |-> "DecodeError", blocks |-> <<>>]
NotBlocks == [tag |-> "NotBlocks", blocks |-> <<>>]
Decoded(doc) == [tag |-> "Blocks", blocks |-> doc]

\* What stencila_codecs::from_identifier followed by try_into may yield for an
\* include at the given depth: a failure to decode, a node that is no block
\* content, or a document.  At MaxDepth only documents without blocks.
CodecOutcomes(depth) ==
    {DecodeError, NotBlocks}
        \cup {Decoded(d) : d \in {e \in DocPool : depth < MaxDepth \/ e = <<>>}}

\* ------------------------------------------------------------------ state

VARIABLES
    tree,             \* the document: position -> node
    directory_stack,  \* executor.directory_stack
    patches,          \* the patch sink: emissions of the current phase, in order
    calls,            \* the walk's call stack: compile calls and content walks
    phase,            \* "idle", or the phase the driver is running
    returned,         \* the last compile call to return: Some(record) or None
    arguments,        \* self.arguments of the document's include block
    kernels,          \* executor.kernels: variable name -> value (bound names only)
    exec,             \* the execute call of the document's include block
    access,           \* the other client of executor.kernels and its handle
    phase_call        \* the last prepare or interrupt call on the include block

compile_vars == <<tree, directory_stack, patches, calls, returned>>
kernel_vars == <<arguments, kernels, exec, access>>
vars == <<tree, directory_stack, patches, calls, phase, returned, arguments,
          kernels, exec, access, phase_call>>

\* Base directories the executor may start with (the document's directory).
BaseDir == <<"/", "d">>
InitialStacks == {<<>>, <<BaseDir>>}

\* A compile call of the include block at `node`, not yet begun.  pop_dir and
\* messages are the call's locals, next and failed the progress of its nested
\* walk; the remaining fields record what the call found on entry and how it
\* resolved its source.
CompileCall(t, node, dirs) ==
    [kind |-> "compile", node |-> node, pc |-> "enter", pop_dir |-> FALSE,
     messages |-> <<>>, next |-> 1, failed |-> FALSE,
     source |-> t[node].source, entry_dirs |-> dirs,
     had_content |-> IsSome(t[node].content),
     had_messages |-> IsSome(t[node].compilation_messages),
     outcome |-> "none", identifier |-> <<>>]

\* The walker's traversal of the content of `node` after its compile returned
\* Continue.
ContentWalk(call) == [call EXCEPT !.kind = "walk", !.pc = "walk"]

Top == calls[Len(calls)]
Caller == SubSeq(calls, 1, Len(calls) - 1)

\* The execute call before its first run: pc is the call's position, i the
\* argument the loop is at, lock whether the call holds executor.kernels.write();
\* start and log record the kernels the call found and what it did per argument,
\* rerun whether the call before it returned with every kernel call succeeding.
NotExecuting ==
    [pc |-> "idle", i |-> 1, lock |-> FALSE, control |-> "none",
     start |-> <<>>, log |-> <<>>, rerun |-> FALSE]

\* Every kernel get and set of the call that wrote `log` succeeded.
AllSucceeded(log) ==
    \A i \in 1..Len(log) : ~log[i].get_error /\ log[i].set /= "error"

\* The other client of executor.kernels before it asks for a handle: who it is
\* (a node of the included content, or another executor sharing the kernels),
\* the handle it holds, and what it found when it got the handle: the kernels,
\* whether the include's execute was running and how many arguments it had
\* been through.
NoAccess ==
    [pc |-> "idle", who |-> "none", handle |-> "none", seen |-> <<>>,
     during |-> FALSE, bound |-> 0]

\* No prepare or interrupt call made yet.
NoCall == [op |-> "none", control |-> "none"]

InitDocument ==
    /\ tree = [q \in Positions |-> IF q = Root THEN IncludeBlock(SrcEmpty) ELSE NoNode]
    /\ directory_stack \in InitialStacks
    /\ patches = <<>>
    /\ calls = <<>>
    /\ phase = "idle"
    /\ returned = None
    /\ exec = NotExecuting
    /\ access = NoAccess
    /\ phase_call = NoCall

\* ------------------------------------------------------------------ compile

\* Faulty variant: the emptiness test without the trim.
is_blank_untrimmed(source) == source = <<>>

\* include_block.rs:13  self.source.trim().is_empty()
is_blank(source) == Trim(source) = <<>>

\* Faulty variant: only the https scheme is recognised.
is_url_https_only(source) == StartsWith(source, Https)

\* include_block.rs:158  absolute URL test
is_url(source) == StartsWith(source, Https) \/ StartsWith(source, Http)

\* Faulty variant: the parent directory is pushed without comparing it with
\* the stack top.
resolve_source_always_push(source, dirs) ==
    LET last_dir == Last(dirs)
        path == IF IsSome(last_dir) THEN PathJoin(Unwrap(last_dir), source)
                ELSE source
        parent == PathParent(path)
        push == ~is_url(source) /\ IsSome(parent)
    IN  [identifier |-> IF is_url(source) THEN source ELSE path,
         directory_stack |-> IF push THEN Append(dirs, Unwrap(parent)) ELSE dirs,
         pop_dir |-> push]

\* Faulty variant: the source is joined to the first (the document's) directory
\* of the stack instead of the last.
resolve_source_from_base(source, dirs) ==
    LET last_dir == Last(dirs)
        path == IF IsSome(last_dir) THEN PathJoin(dirs[1], source) ELSE source
        parent == PathParent(path)
        push == ~is_url(source) /\ IsSome(parent) /\ parent /= last_dir
    IN  [identifier |-> IF is_url(source) THEN source ELSE path,
         directory_stack |-> IF push THEN Append(dirs, Unwrap(parent)) ELSE dirs,
         pop_dir |-> push]

\* include_block.rs:157-179  the identifier of the source, the directory stack
\* after the (possible) push, and whether a pop is owed.
resolve_source(source, dirs) ==
    LET last_dir == Last(dirs)
        path == IF IsSome(last_dir) THEN PathJoin(Unwrap(last_dir), source)
                ELSE source
        parent == PathParent(path)
        push == ~is_url(source) /\ IsSome(parent) /\ parent /= last_dir
    IN  [identifier |-> IF is_url(source) THEN source ELSE path,
         directory_stack |-> IF push THEN Append(dirs, Unwrap(parent)) ELSE dirs,
         pop_dir |-> push]

\* include_block.rs:181-211  the content and the messages for the codec's
\* outcome on the identifier.
decode_content(outcome) ==
    [content |-> IF outcome.tag = "Blocks" THEN Some(outcome.blocks) ELSE None,
     messages |->
        IF outcome.tag = "Blocks" THEN <<>>
        ELSE IF outcome.tag = "NotBlocks"
        THEN <<ErrorMessage("Unable to convert source into block content")>>
        ELSE <<error_to_compilation_message("decode")>>]

\* include_block.rs:150-216  source_to_content: (content, pop_dir, messages),
\* with the identifier decoded and the directory stack it leaves.
source_to_content(source, dirs, outcome) ==
    LET resolved == resolve_source(source, dirs)
        decoded == decode_content(outcome)
    IN  [identifier |-> resolved.identifier,
         directory_stack |-> resolved.directory_stack,
         pop_dir |-> resolved.pop_dir,
         content |-> decoded.content,
         messages |-> decoded.messages]

\* Faulty variant: a failed resolution keeps the content the node held.
store_content_keep(t, p, content) ==
    IF IsSome(content) THEN SetContent(t, p, content) ELSE t

\* include_block.rs:31-32, 43  self.content = Some(content.clone()) / None
store_content(t, p, content) == SetContent(t, p, content)

\* Faulty variant: the append is emitted before the clear.
content_ops_append_first(content) ==
    IF IsSome(content)
    THEN <<append("Content", Unwrap(content)), none("Content")>>
    ELSE <<none("Content")>>

\* include_block.rs:33-44  the operations patched for the resolved content
content_ops(content) ==
    IF IsSome(content)
    THEN <<none("Content"), append("Content", Unwrap(content))>>
    ELSE <<none("Content")>>

\* include_block.rs:50-52  the nested walk's error joins the messages
with_walk_error(messages, err) ==
    IF err THEN Append(messages, error_to_compilation_message("walk")) ELSE messages

\* Faulty variant: the pop is made only after a nested walk without error.
owed_pop_unless_error(pop_dir, err) == pop_dir /\ ~err

\* include_block.rs:50-55  the pop that is owed once the nested walk has
\* returned, with or without error
owed_pop(pop_dir, err) == pop_dir

\* Faulty variant: the pop is forgotten.
pop_directory_never(pop_dir, dirs) == dirs

\* include_block.rs:54-57  pop off the directory stack if necessary
pop_directory(pop_dir, dirs) == IF pop_dir THEN Pop(dirs) ELSE dirs

\* Faulty variant: an empty list is stored as Some(empty list).
then_some_always(messages) == Some(messages)

\* include_block.rs:59  (!messages.is_empty()).then_some(messages)
then_some(messages) == IF messages /= <<>> THEN Some(messages) ELSE None

\* Faulty variant: compile hands the content it compiled back to the walker.
break_after_compile_continue == "Continue"

\* include_block.rs:64-65  Break because content already compiled above
break_after_compile == "Break"

\* A compile call's return, as the walker sees it.
Returned(call, control, err, dirs) ==
    Some([call |-> call, control |-> control, walk_error |-> err,
          exit_dirs |-> dirs])

\* The author edits the source of the document's include block.
SetSource ==
    /\ phase = "idle"
    /\ \E s \in Sources : tree' = [tree EXCEPT ![Root].source = s]
    /\ UNCHANGED <<directory_stack, patches, calls, phase, returned,
                   kernel_vars, phase_call>>

\* The driver starts the compile phase: the walker calls compile on the root.
\* The records of the phases run before are dropped.
CompileStart ==
    /\ phase = "idle"
    /\ phase' = "compile"
    /\ calls' = <<CompileCall(tree, Root, directory_stack)>>
    /\ patches' = <<>>
    /\ returned' = None
    /\ exec' = NotExecuting
    /\ phase_call' = NoCall
    /\ UNCHANGED <<tree, directory_stack, arguments, kernels, access>>

\* include_block.rs:10-16  blank source: return Continue; the walker then
\* walks the node's existing content.
CompileBlank ==
    /\ phase = "compile" /\ calls /= <<>>
    /\ Top.kind = "compile" /\ Top.pc = "enter"
    /\ is_blank(tree[Top.node].source)
    /\ returned' = Returned(Top, "Continue", FALSE, directory_stack)
    /\ calls' = Append(Caller, ContentWalk(Top))
    /\ UNCHANGED <<tree, directory_stack, patches, phase, kernel_vars, phase_call>>

\* include_block.rs:13-45  non-blank source: resolve it, store the content and
\* patch it; the nested walk of the content (line 50) follows.
CompileResolve ==
    /\ phase = "compile" /\ calls /= <<>>
    /\ Top.kind = "compile" /\ Top.pc = "enter"
    /\ ~is_blank(tree[Top.node].source)
    /\ \E outcome \in CodecOutcomes(Len(Top.node)) :
        LET r == source_to_content(tree[Top.node].source, directory_stack, outcome)
        IN  /\ tree' = store_content(tree, Top.node, r.content)
            /\ patches' = patch(patches, Top.node, content_ops(r.content))
            /\ directory_stack' = r.directory_stack
            /\ calls' = Append(Caller,
                   [Top EXCEPT !.pc = "walk", !.pop_dir = r.pop_dir,
                               !.messages = r.messages,
                               !.outcome = outcome.tag,
                               !.identifier = r.identifier])
    /\ UNCHANGED <<phase, returned, kernel_vars, phase_call>>

\* The walker visits the next block of the content being walked: an include
\* block is compiled, any other block has nothing to compile.
WalkBlock ==
    /\ phase = "compile" /\ calls /= <<>>
    /\ Top.pc = "walk" /\ ~Top.failed
    /\ Top.next <= NumBlocks(tree, Top.node)
    /\ LET child == Top.node \o <<Top.next>>
           here == [Top EXCEPT !.next = Top.next + 1]
       IN  calls' = IF tree[child].kind = "IncludeBlock"
                    THEN Append(Append(Caller, here),
                                CompileCall(tree, child, directory_stack))
                    ELSE Append(Caller, here)
    /\ UNCHANGED <<tree, directory_stack, patches, phase, returned,
                   kernel_vars, phase_call>>

\* The frames left once the top call is gone; an error of a content walk
\* aborts the walk that made the call.
AfterReturn(err) ==
    IF Len(calls) > 1
    THEN Append(SubSeq(calls, 1, Len(calls) - 2),
                [calls[Len(calls) - 1] EXCEPT !.failed = @ \/ err])
    ELSE <<>>

\* The walk of a node's content (after Continue) ends: all blocks visited, or
\* an error.
WalkReturn ==
    /\ phase = "compile" /\ calls /= <<>>
    /\ Top.kind = "walk"
    /\ \E err \in BOOLEAN :
        /\ Top.failed => err
        /\ ~err => Top.next > NumBlocks(tree, Top.node)
        /\ calls' = AfterReturn(err)
    /\ phase' = IF Len(calls) = 1 THEN "idle" ELSE phase
    /\ UNCHANGED <<tree, directory_stack, patches, returned, kernel_vars,
                   phase_call>>

\* The frames once a compile call has returned `control`: after Break the
\* walker leaves the node, after Continue it walks the node's content.
AfterCompile(control) ==
    IF control = "Continue"
    THEN Append(Caller, ContentWalk([Top EXCEPT !.next = 1, !.failed = FALSE]))
    ELSE AfterReturn(FALSE)

\* include_block.rs:50-65  the nested walk returned (Ok or Err): record its
\* error, pop the directory stack, replace and patch the messages, Break.
CompileFinish ==
    /\ phase = "compile" /\ calls /= <<>>
    /\ Top.kind = "compile" /\ Top.pc = "walk"
    /\ \E err \in BOOLEAN :
        /\ Top.failed => err
        /\ ~err => Top.next > NumBlocks(tree, Top.node)
        /\ LET messages == then_some(with_walk_error(Top.messages, err))
               dirs == pop_directory(owed_pop(Top.pop_dir, err), directory_stack)
           IN  /\ directory_stack' = dirs
               /\ tree' = [tree EXCEPT ![Top.node].compilation_messages = messages]
               /\ patches' = patch(patches, Top.node,
                                   <<set("CompilationMessages", messages)>>)
               /\ returned' = Returned(Top, break_after_compile, err, dirs)
    /\ calls' = AfterCompile(break_after_compile)
    /\ phase' = IF Len(calls') = 0 THEN "idle" ELSE phase
    /\ UNCHANGED <<kernel_vars, phase_call>>

\* ------------------------------------------------------------------ execute

\* Most arguments an include block declares.
MaxArgs == 2

\* Variable names and values.
VarX == <<"x">>
VarN == <<"n">>
Values == {"5", "7"}
Literal == "Acme"

Argument(name, code, value) == [name |-> name, code |-> code, value |-> value]

CodeWrappedX == <<"{", "{", "x", "}", "}">>
CodePaddedX == <<" ", "{", "{", " ", "x", " ", "}", "}", " ">>
CodeBareX == <<"x">>
CodeWrappedN == <<"{", "{", "n", "}", "}">>
CodeWrappedQ == <<"{", "{", "q", "}", "}">>
CodeOpenX == <<"{", "{", "x">>
CodeSpaces == <<" ">>

\* Arguments an author may declare.
ArgPool ==
    {Argument(VarN, CodeWrappedX, None),
     Argument(VarN, CodePaddedX, None),
     Argument(VarN, CodeBareX, Some(Literal)),
     Argument(VarX, CodeWrappedN, None),
     Argument(VarN, CodeWrappedQ, Some(Literal)),
     Argument(VarN, CodeOpenX, None),
     Argument(VarN, CodeSpaces, Some(Literal)),
     Argument(VarX, <<>>, Some(Literal)),
     Argument(VarN, <<>>, Some(Literal)),
     Argument(VarN, <<>>, None)}

ArgLists == UNION {[1..n -> ArgPool] : n \in 0..MaxArgs}

\* Kernel states the session may start with: x and n bound or not.
KernelStates ==
    UNION {[names -> Values] : names \in SUBSET {VarX, VarN}}

\* Outcomes of a kernel call.
Ok(v) == [ok |-> TRUE, value |-> v]
Err == [ok |-> FALSE, value |-> None]

\* Kernels::get: Ok(Some(node)), Ok(None) for a name that is not bound, or an
\* error of the kernel.
kernels_get(k, name, fails) ==
    IF fails THEN Err
    ELSE IF name \in DOMAIN k THEN Ok(Some(k[name]))
    ELSE Ok(None)

\* Kernels::set: the kernels with name bound to value, or unchanged on error.
kernels_set(k, name, value, fails) ==
    IF fails THEN k
    ELSE [v \in DOMAIN k \cup {name} |-> IF v = name THEN value ELSE k[v]]

Braces == <<"{", "{">>
Closing == <<"}", "}">>

\* Faulty variant: the {{ }} wrapper is not stripped.
code_to_eval_unstripped(code) == Trim(code)

\* include_block.rs:93-98  the variable name an argument's code refers to
code_to_eval(code) ==
    LET trimmed == Trim(code)
    IN  IF StartsWith(trimmed, Braces) /\ EndsWith(trimmed, Closing)
        THEN Trim(SubSeq(trimmed, 3, Len(trimmed) - 2))
        ELSE trimmed

\* Faulty variant: a literal value, when present, is used whatever the code.
arg_value_literal_first(arg, k, get_fails) ==
    IF IsSome(arg.value) THEN arg.value
    ELSE IF arg.code /= <<>>
    THEN LET got == kernels_get(k, code_to_eval(arg.code), get_fails)
         IN  IF got.ok THEN got.value ELSE None
    ELSE None

\* Faulty variant: an argument whose lookup yields nothing falls back to its
\* literal value.
arg_value_fallback(arg, k, get_fails) ==
    IF arg.code /= <<>>
    THEN LET got == kernels_get(k, code_to_eval(arg.code), get_fails)
         IN  IF got.ok /\ IsSome(got.value) THEN got.value ELSE arg.value
    ELSE arg.value

\* include_block.rs:90-121  arg_value: the kernel's value of the variable the
\* code names, else (code empty) the literal value, else None
arg_value(arg, k, get_fails) ==
    IF arg.code /= <<>>
    THEN LET got == kernels_get(k, code_to_eval(arg.code), get_fails)
         IN  IF got.ok THEN got.value ELSE None
    ELSE arg.value

\* include_block.rs:88-131  one iteration of the argument loop: the kernels it
\* leaves and a record of what it did.
bind_argument(arg, k, get_fails, set_fails) ==
    LET value == arg_value(arg, k, get_fails)
    IN  [kernels |-> IF IsSome(value)
                     THEN kernels_set(k, arg.name, Unwrap(value), set_fails)
                     ELSE k,
         entry |-> [get_error |-> arg.code /= <<>> /\ get_fails,
                    value |-> value,
                    set |-> IF ~IsSome(value) THEN "none"
                            ELSE IF set_fails THEN "error" ELSE "ok"]]

\* Faulty variant: the loop runs without the write handle.
takes_write_lock_never(args) == FALSE

\* include_block.rs:84-86  with arguments, execute takes the write handle of
\* executor.kernels
takes_write_lock(args) == args /= <<>>

\* Faulty variant: the arguments are taken last to first.
argument_at_reversed(args, i) == args[Len(args) + 1 - i]

\* include_block.rs:88  for arg in &self.arguments: the i-th argument the
\* loop takes
argument_at(args, i) == args[i]

\* Faulty variant: an error of the kernel's set ends the loop.
after_argument_abort(args, i, entry) ==
    IF entry.set = "error" THEN Len(args) + 1 ELSE i + 1

\* include_block.rs:123-131  after an argument the loop goes on to the next
\* one, whatever the lookup and the set gave
after_argument(args, i, entry) == i + 1

\* Faulty variant: execute returns with the handle still held.
drop_lock_forgotten(lock) == lock

\* include_block.rs:132  drop(kernels): the handle execute holds on return
drop_lock(lock) == FALSE

\* include_block.rs:78-87  execute begins; with arguments it takes the write
\* handle of the kernels, which it gets once no other client holds a handle.
\* The records of the phases run before are dropped.
ExecuteStart ==
    /\ phase = "idle"
    /\ takes_write_lock(arguments) => access.pc = "idle"
    /\ phase' = "execute"
    /\ exec' = [pc |-> "bind", i |-> 1, lock |-> takes_write_lock(arguments),
                control |-> "none", start |-> kernels, log |-> <<>>,
                rerun |-> exec.pc = "returned" /\ AllSucceeded(exec.log)]
    /\ phase_call' = NoCall
    /\ patches' = <<>>
    /\ returned' = None
    /\ UNCHANGED <<tree, directory_stack, calls, arguments, kernels, access>>

\* include_block.rs:88-131  the loop binds the next argument.
ExecuteArgument ==
    /\ phase = "execute" /\ exec.pc = "bind"
    /\ exec.i <= Len(arguments)
    /\ \E get_fails \in BOOLEAN, set_fails \in BOOLEAN :
        LET r == bind_argument(argument_at(arguments, exec.i), kernels,
                               get_fails, set_fails)
        IN  /\ kernels' = r.kernels
            /\ exec' = [exec EXCEPT
                            !.i = after_argument(arguments, exec.i, r.entry),
                            !.log = Append(exec.log, r.entry)]
    /\ UNCHANGED <<compile_vars, phase, arguments, access, phase_call>>

\* include_block.rs:132-136  the lock is dropped and execute returns Continue.
ExecuteReturn ==
    /\ phase = "execute" /\ exec.pc = "bind"
    /\ exec.i > Len(arguments)
    /\ exec' = [exec EXCEPT !.pc = "returned", !.lock = drop_lock(exec.lock),
                            !.control = "Continue"]
    /\ phase' = "idle"
    /\ UNCHANGED <<compile_vars, arguments, kernels, access, phase_call>>

\* ------------------------------------------------------------------ prepare, interrupt

\* include_block.rs:73-74  prepare: continue walk to prepare nodes in content
prepare == "Continue"

\* Faulty variant: interrupt aborts the walk.
interrupt_stop == "Stop"

\* include_block.rs:144-145  interrupt: continue walk to interrupt nodes in
\* content
interrupt == "Continue"

\* include_block.rs:68-75  the walker calls prepare on the include block.
Prepare ==
    /\ phase = "idle"
    /\ phase_call' = [op |-> "prepare", control |-> prepare]
    /\ UNCHANGED <<compile_vars, phase, kernel_vars>>

\* include_block.rs:139-146  the walker calls interrupt on the include block.
Interrupt ==
    /\ phase = "idle"
    /\ phase_call' = [op |-> "interrupt", control |-> interrupt]
    /\ UNCHANGED <<compile_vars, phase, kernel_vars>>

\* ------------------------------------------------------------------ other clients of the kernels

\* Handles of the RwLock around the kernels.
Handles == {"read", "write"}

\* Another client asks for a handle of executor.kernels and gets it: a read or
\* a write handle is granted only while no write handle is held.  A node of
\* the included content is visited by the walker once execute has returned
\* Continue; another executor sharing the kernels may ask at any time.
AccessAcquire(who, handle) ==
    /\ access.pc = "idle"
    /\ who = "child" => (exec.pc = "returned" /\ exec.control = "Continue")
    /\ ~exec.lock
    /\ access' = [pc |-> "held", who |-> who, handle |-> handle,
                  seen |-> kernels, during |-> exec.pc = "bind",
                  bound |-> Len(exec.log)]
    /\ UNCHANGED <<compile_vars, phase, arguments, kernels, exec, phase_call>>

\* The other client is done: with a write handle it has set a variable; the
\* handle is released.
AccessRelease ==
    /\ access.pc = "held"
    /\ \E name \in {VarX}, value \in Values :
        kernels' = IF access.handle = "write"
                   THEN kernels_set(kernels, name, value, FALSE)
                   ELSE kernels
    /\ access' = [access EXCEPT !.pc = "idle"]
    /\ UNCHANGED <<compile_vars, phase, arguments, exec, phase_call>>

\* ------------------------------------------------------------------ specifications

\* The compile phase of a document whose include block declares no argument.
InitCompile ==
    /\ InitDocument
    /\ arguments = <<>>
    /\ kernels = <<>>

NextCompile ==
    \/ SetSource
    \/ CompileStart
    \/ CompileBlank
    \/ CompileResolve
    \/ WalkBlock
    \/ WalkReturn
    \/ CompileFinish

SpecCompile == InitCompile /\ [][NextCompile]_vars

\* A step of the walker, or the return of a compile call whose nested walk
\* has ended.
WalkStep ==
    \/ WalkBlock
    \/ WalkReturn
    \/ CompileFinish

\* The compile phase with a walker that keeps going and a codec whose every
\* decode returns: a walk under way takes its next step, and no compile call
\* stays for ever before its first line or in its resolution.
SpecCompileFair ==
    /\ SpecCompile
    /\ WF_vars(WalkStep)
    /\ []<>(~(calls /= <<>> /\ Top.kind = "compile" /\ Top.pc = "enter"))

\* The execute phase, for every argument list and every starting kernel state.
InitExecute ==
    /\ InitDocument
    /\ arguments \in ArgLists
    /\ kernels \in KernelStates

NextExecute ==
    \/ ExecuteStart
    \/ ExecuteArgument
    \/ ExecuteReturn

SpecExecute == InitExecute /\ [][NextExecute]_vars

\* Argument lists of the documents whose kernels other clients use too.
SharedArgPool ==
    {Argument(VarN, CodeWrappedX, None),
     Argument(VarX, CodeWrappedN, None),
     Argument(VarX, <<>>, Some(Literal))}

SharedArgLists == UNION {[1..n -> SharedArgPool] : n \in 0..MaxArgs}

InitShared ==
    /\ InitDocument
    /\ arguments \in SharedArgLists
    /\ kernels \in KernelStates

\* The execute phase while another executor shares the kernels.
NextShared ==
    \/ ExecuteStart
    \/ ExecuteArgument
    \/ ExecuteReturn
    \/ \E handle \in Handles : AccessAcquire("executor", handle)
    \/ AccessRelease

SpecShared == InitShared /\ [][NextShared]_vars

\* The execute phase followed by the walk into the included content, whose
\* nodes use the kernels.
NextChildren ==
    \/ ExecuteStart
    \/ ExecuteArgument
    \/ ExecuteReturn
    \/ \E handle \in Handles : AccessAcquire("child", handle)
    \/ AccessRelease

SpecChildren == InitShared /\ [][NextChildren]_vars

\* All phases on one document, in any order, for a document in directory /d
\* whose include block declares the argument n = {{x}}, in a session where x
\* is "5".
DeclaredArguments == <<Argument(VarN, CodeWrappedX, None)>>

Init ==
    /\ InitDocument
    /\ directory_stack = <<BaseDir>>
    /\ arguments = DeclaredArguments
    /\ kernels = [name \in {VarX} |-> "5"]

Next ==
    \/ SetSource
    \/ CompileStart
    \/ CompileBlank
    \/ CompileResolve
    \/ WalkBlock
    \/ WalkReturn
    \/ CompileFinish
    \/ Prepare
    \/ ExecuteStart
    \/ ExecuteArgument
    \/ ExecuteReturn
    \/ Interrupt

Spec == Init /\ [][Next]_vars

\* ------------------------------------------------------------------ compile: properties

AllWhitespace(s) == \A i \in 1..Len(s) : s[i] \in {" ", "\t", "\n"}
HasUrlScheme(s) == StartsWith(s, Http) \/ StartsWith(s, Https)

\* A compile call is about to run its first line.
Entering == calls /= <<>> /\ Top.kind = "compile" /\ Top.pc = "enter"

\* The nested walk of a compile call is running or about to return.
Walking == calls /= <<>> /\ Top.kind = "compile" /\ Top.pc = "walk"

\* The messages a compile generates: those of the resolution, then the nested
\* walk's error.
ResolutionMessages(outcome) ==
    IF outcome = "DecodeError" THEN <<[level |-> "Error", message |-> "decode"]>>
    ELSE IF outcome = "NotBlocks"
    THEN <<[level |-> "Error",
            message |-> "Unable to convert source into block content"]>>
    ELSE <<>>

GeneratedMessages(r) ==
    ResolutionMessages(r.call.outcome)
        \o (IF r.walk_error THEN <<[level |-> "Error", message |-> "walk"]>> ELSE <<>>)

\* C1: compile of an include whose source is empty or whitespace-only returns
\* Continue and changes neither the tree (content, compilationMessages), nor
\* the DirectoryStack, and emits no patch.
C1_BlankSourceChangesNothing ==
    [][(Entering /\ AllWhitespace(tree[Top.node].source))
        => /\ IsSome(returned')
           /\ Unwrap(returned').control = "Continue"
           /\ Unwrap(returned').call.node = Top.node
           /\ UNCHANGED <<tree, directory_stack, patches>>]_vars

\* C1 witness: a whitespace-only source returned Continue while the node still
\* holds the content and the messages of an earlier compile.
C1_Witness ==
    /\ IsSome(returned)
    /\ Unwrap(returned).control = "Continue"
    /\ Unwrap(returned).call.node = Root
    /\ tree[Root].source = SrcSpaces
    /\ IsSome(tree[Root].content)
    /\ IsSome(tree[Root].compilation_messages)

\* C2: compile of an include with a non-blank source returns Break (and only
\* then), and after a failed decode or conversion content is None and
\* compilationMessages is Some list holding the Error message of that failure.
C2_FailedResolutionClearsContent ==
    IsSome(returned) =>
        LET r == Unwrap(returned)
            node == tree[r.call.node]
        IN  /\ (r.control = "Break") = ~AllWhitespace(r.call.source)
            /\ r.control \in {"Break", "Continue"}
            /\ (r.control = "Break" /\ r.call.outcome \in {"DecodeError", "NotBlocks"})
                => /\ node.content = None
                   /\ IsSome(node.compilation_messages)
                   /\ \E i \in 1..Len(Unwrap(node.compilation_messages)) :
                        Unwrap(node.compilation_messages)[i]
                            = ResolutionMessages(r.call.outcome)[1]

\* C2 witness: a decode failure on a node that held content before the compile.
C2_Witness ==
    /\ IsSome(returned)
    /\ Unwrap(returned).control = "Break"
    /\ Unwrap(returned).call.outcome = "DecodeError"
    /\ Unwrap(returned).call.had_content
    /\ tree[Unwrap(returned).call.node].content = None

\* The path a relative source resolves to under the directory stack `dirs`,
\* and the directory a compile call pushed when it resolved its source.
ResolvedPath(dirs, source) ==
    IF dirs = <<>> THEN source ELSE PathJoin(dirs[Len(dirs)], source)

PushedDir(call) == Unwrap(PathParent(ResolvedPath(call.entry_dirs, call.source)))

\* C3: resolving a relative source pushes exactly one entry, the parent
\* directory of the resolved path, iff that parent differs from the stack top
\* (an empty stack differs; a path without parent pushes nothing); the stack
\* grows in no other step, and it shrinks only by the one pop of a call that
\* pushed, when that call's nested walk has returned.
C3_PushIffParentDiffers ==
    [][/\ (Entering /\ ~AllWhitespace(Top.source) /\ ~HasUrlScheme(Top.source))
            => LET parent == PathParent(ResolvedPath(directory_stack, Top.source))
                   differs == IsSome(parent) /\ parent /= Last(directory_stack)
               IN  /\ differs =>
                        /\ directory_stack' = Append(directory_stack, Unwrap(parent))
                        /\ calls'[Len(calls)].pop_dir
                   /\ ~differs =>
                        /\ directory_stack' = directory_stack
                        /\ ~calls'[Len(calls)].pop_dir
       /\ Len(directory_stack') > Len(directory_stack) => Entering
       /\ Len(directory_stack') < Len(directory_stack)
            => /\ Walking /\ Top.pop_dir
               /\ Len(calls') = Len(calls) - 1
               /\ Top.next > NumBlocks(tree, Top.node) \/ Unwrap(returned').walk_error
               /\ directory_stack' = Pop(directory_stack)
       /\ (Walking /\ Top.pop_dir /\ Len(calls') < Len(calls))
            => directory_stack' = Pop(directory_stack)]_vars

\* C3 witness: a nested include that pushed a directory has returned and the
\* directory is gone again.
C3_Witness ==
    /\ IsSome(returned)
    /\ Unwrap(returned).control = "Break"
    /\ Unwrap(returned).call.pop_dir
    /\ Len(Unwrap(returned).call.node) >= 1
    /\ Unwrap(returned).call.outcome = "Blocks"
    /\ directory_stack = Unwrap(returned).call.entry_dirs

\* C4: when a compile call returns, on whatever path and at whatever depth,
\* the DirectoryStack equals the DirectoryStack the call was entered with.
C4_StackRestoredOnReturn ==
    IsSome(returned) =>
        Unwrap(returned).exit_dirs = Unwrap(returned).call.entry_dirs

\* C4 witness: a nested include that pushed a directory returns after its
\* nested walk failed.
C4_Witness ==
    /\ IsSome(returned)
    /\ Unwrap(returned).control = "Break"
    /\ Unwrap(returned).call.pop_dir
    /\ Unwrap(returned).walk_error
    /\ Len(Unwrap(returned).call.node) >= 1
    /\ Unwrap(returned).call.entry_dirs /= <<>>

\* C5: a compile call whose source starts with http:// or https:// never
\* changes the DirectoryStack and owes no pop.
C5_UrlSourceLeavesStack ==
    [][(calls /= <<>> /\ Top.kind = "compile" /\ HasUrlScheme(Top.source))
        => /\ directory_stack' = directory_stack
           /\ Len(calls') >= Len(calls) => ~calls'[Len(calls)].pop_dir]_vars

\* C5 witness: an http include nested under a pushed directory has returned.
C5_Witness ==
    /\ IsSome(returned)
    /\ Unwrap(returned).control = "Break"
    /\ Unwrap(returned).call.source = SrcHttp
    /\ Unwrap(returned).call.identifier = SrcHttp
    /\ Len(Unwrap(returned).exit_dirs) = 2

\* C6: while the content fetched by an include that pushed a directory is
\* compiled, that directory stays on the stack, it is the stack top whenever a
\* block of that content is visited, and every include nested directly in that
\* content resolves its relative source against it.
C6_NestedResolveAgainstPushed ==
    \A i \in 1..Len(calls) :
        (calls[i].kind = "compile" /\ calls[i].pc = "walk" /\ calls[i].pop_dir) =>
            /\ Len(directory_stack) > Len(calls[i].entry_dirs)
            /\ directory_stack[Len(calls[i].entry_dirs) + 1] = PushedDir(calls[i])
            /\ i = Len(calls) => Last(directory_stack) = Some(PushedDir(calls[i]))
            /\ i < Len(calls) =>
                /\ Last(calls[i + 1].entry_dirs) = Some(PushedDir(calls[i]))
                /\ (/\ calls[i + 1].kind = "compile"
                    /\ calls[i + 1].pc = "walk"
                    /\ ~HasUrlScheme(calls[i + 1].source))
                    => calls[i + 1].identifier
                         = PathJoin(PushedDir(calls[i]), calls[i + 1].source)

\* C6 witness: under base /d, source s/a pushed /d/s and the nested include
\* t/b resolved to /d/s/t/b.
C6_Witness ==
    /\ Len(calls) = 2
    /\ calls[1].entry_dirs = <<BaseDir>>
    /\ calls[1].source = SrcSub
    /\ calls[2].source = SrcNested
    /\ calls[2].identifier = <<"/", "d", "/", "s", "/", "t", "/", "b">>
    /\ directory_stack
         = <<BaseDir, <<"/", "d", "/", "s">>, <<"/", "d", "/", "s", "/", "t">>>>

ClearContent == [op |-> "none", property |-> "Content", value |-> None]

\* C7: a successful resolution emits for the node, in one emission,
\* Clear(Content) then Append(Content, blocks) with the blocks stored in the
\* node's content, a failed one only Clear(Content); that emission precedes
\* every patch of the nested compile, and the node's Set(CompilationMessages)
\* follows them.
C7_PatchOrder ==
    /\ Walking /\ Top.next = 1 =>
        /\ patches /= <<>>
        /\ patches[Len(patches)].node_id = Top.node
        /\ patches[Len(patches)].ops =
              IF Top.outcome = "Blocks"
              THEN <<ClearContent,
                     [op |-> "append", property |-> "Content",
                      value |-> Unwrap(ContentOf(tree, Top.node))]>>
              ELSE <<ClearContent>>
    /\ \A a, b \in 1..Len(patches) :
        /\ IsBelow(patches[b].node_id, patches[a].node_id) =>
            /\ patches[a].ops[1].property = "Content" => a < b
            /\ patches[a].ops[1].property = "CompilationMessages" => b < a
        /\ (/\ patches[a].node_id = patches[b].node_id
            /\ patches[a].ops[1].property = "Content"
            /\ patches[b].ops[1].property = "CompilationMessages") => a < b
    /\ \A a \in 1..Len(patches) :
        patches[a].ops[1].property = "CompilationMessages" =>
            /\ Len(patches[a].ops) = 1
            /\ patches[a].ops[1].op = "set"
            /\ patches[a].ops[1].value = tree[patches[a].node_id].compilation_messages

\* C7 witness: the root's Clear+Append, then patches of the nested compile,
\* then the root's Set(CompilationMessages).
C7_Witness ==
    /\ Len(patches) >= 4
    /\ patches[1].node_id = Root
    /\ Len(patches[1].ops) = 2
    /\ patches[2].node_id /= Root
    /\ patches[Len(patches)].node_id = Root
    /\ patches[Len(patches)].ops[1].op = "set"

\* C8: after a compile with a non-blank source, compilationMessages is exactly
\* the list of messages that compile generated (None when it generated none),
\* whatever an earlier compile left.
C8_MessagesReplaced ==
    (IsSome(returned) /\ Unwrap(returned).control = "Break") =>
        tree[Unwrap(returned).call.node].compilation_messages =
            IF GeneratedMessages(Unwrap(returned)) = <<>> THEN None
            ELSE Some(GeneratedMessages(Unwrap(returned)))

\* C8 witness: a node that held messages is compiled again without any message.
C8_Witness ==
    /\ IsSome(returned)
    /\ Unwrap(returned).control = "Break"
    /\ Unwrap(returned).call.had_messages
    /\ GeneratedMessages(Unwrap(returned)) = <<>>
    /\ tree[Unwrap(returned).call.node].compilation_messages = None

\* ------------------------------------------------------------------ execute: properties

\* The variable name each code of ArgPool refers to, read off the text.
RefersTo(code) ==
    CASE code = CodeWrappedX -> <<"x">>
      [] code = CodePaddedX -> <<"x">>
      [] code = CodeBareX -> <<"x">>
      [] code = CodeWrappedN -> <<"n">>
      [] code = CodeWrappedQ -> <<"q">>
      [] code = CodeOpenX -> <<"{", "{", "x">>
      [] code = CodeSpaces -> <<>>
      [] OTHER -> <<>>

\* Codes that are a variable reference: a bare name or a wrapped name.
IsReference(code) ==
    code \in {CodeWrappedX, CodePaddedX, CodeBareX, CodeWrappedN, CodeWrappedQ}

\* The step in which the loop binds argument exec.i.
BindingStep ==
    /\ phase = "execute" /\ exec.pc = "bind"
    /\ exec.i <= Len(arguments)
    /\ exec'.i = exec.i + 1

ExecuteReturned == exec.pc = "returned"

\* Argument i is the last of the node's arguments whose set of its name
\* succeeded.
LastSetOfName(i) ==
    /\ exec.log[i].set = "ok"
    /\ \A j \in (i + 1)..Len(arguments) :
        ~(arguments[j].name = arguments[i].name /\ exec.log[j].set = "ok")

\* C9 as stated: every reference to a variable that held v when execute began
\* leaves the argument's name bound to v after execute, when its set succeeded.
C9_AsStated ==
    ExecuteReturned =>
        \A i \in 1..Len(arguments) :
            (/\ IsReference(arguments[i].code)
             /\ RefersTo(arguments[i].code) \in DOMAIN exec.start
             /\ exec.log[i].set = "ok")
                => /\ arguments[i].name \in DOMAIN kernels
                   /\ kernels[arguments[i].name]
                        = exec.start[RefersTo(arguments[i].code)]

\* C9 (amended): a reference to a variable x that holds v when the argument is
\* bound, with the kernel get and set succeeding, binds the argument's name to
\* v and changes no other name; after execute the name holds the value bound
\* unless a later argument of the node set the same name.
C9_ReferenceBindsValue ==
    /\ [][(/\ BindingStep
           /\ IsReference(arguments[exec.i].code)
           /\ RefersTo(arguments[exec.i].code) \in DOMAIN kernels
           /\ ~exec'.log[exec.i].get_error
           /\ exec'.log[exec.i].set /= "error")
            => LET v == kernels[RefersTo(arguments[exec.i].code)]
               IN  /\ exec'.log[exec.i].value = Some(v)
                   /\ exec'.log[exec.i].set = "ok"
                   /\ DOMAIN kernels' = DOMAIN kernels \cup {arguments[exec.i].name}
                   /\ \A name \in DOMAIN kernels' :
                        kernels'[name] = IF name = arguments[exec.i].name THEN v
                                         ELSE kernels[name]]_vars
    /\ [](ExecuteReturned =>
            \A i \in 1..Len(arguments) :
                (IsReference(arguments[i].code) /\ LastSetOfName(i))
                    => /\ arguments[i].name \in DOMAIN kernels
                       /\ kernels[arguments[i].name] = Unwrap(exec.log[i].value))

\* C9 witness: n = {{x}} (padded with whitespace) with x = "5" leaves n = "5".
C9_Witness ==
    /\ ExecuteReturned
    /\ arguments = <<Argument(VarN, CodePaddedX, None)>>
    /\ VarN \notin DOMAIN exec.start
    /\ VarX \in DOMAIN exec.start /\ exec.start[VarX] = "5"
    /\ VarN \in DOMAIN kernels /\ kernels[VarN] = "5"

\* C10: an argument whose code refers to a variable that is absent when it is
\* looked up, or whose lookup fails, sets nothing (the kernels are unchanged by
\* its binding); execute adds no message to the node, goes on through all the
\* arguments and returns Continue.
C10_AbsentVariableNotBound ==
    /\ [][(/\ BindingStep
           /\ arguments[exec.i].code /= <<>>
           /\ \/ RefersTo(arguments[exec.i].code) \notin DOMAIN kernels
              \/ exec'.log[exec.i].get_error)
            => /\ kernels' = kernels
               /\ exec'.log[exec.i].set = "none"]_vars
    /\ [][phase = "execute" => (tree' = tree /\ patches' = patches)]_vars
    /\ [](ExecuteReturned =>
            /\ exec.control = "Continue"
            /\ Len(exec.log) = Len(arguments))

\* C10 witness: n = {{q}} with q absent and a literal also present: execute
\* returned and the kernels are as they were, n keeping its earlier value.
C10_Witness ==
    /\ ExecuteReturned
    /\ arguments = <<Argument(VarN, CodeWrappedQ, Some(Literal))>>
    /\ exec.log[1].set = "none" /\ ~exec.log[1].get_error
    /\ VarN \in DOMAIN exec.start
    /\ kernels = exec.start

\* The value the loop obtains for an argument, read off the argument and the
\* kernels it finds: the referenced variable's value, or the literal when the
\* code is empty.
ObtainedValue(arg, k, get_error) ==
    IF arg.code /= <<>>
    THEN IF RefersTo(arg.code) \in DOMAIN k /\ ~get_error
         THEN Some(k[RefersTo(arg.code)])
         ELSE None
    ELSE arg.value

\* The set of an earlier argument of this execute call failed.
SetFailedBefore == \E i \in 1..Len(exec.log) : exec.log[i].set = "error"

\* C11: after the kernel set of an argument failed, every later argument is
\* still looked up and, when a value is obtained, set; the failing step and the
\* ones after it add no message to the node and emit no patch, and execute
\* returns Continue having gone through all the arguments.
C11_SetFailureDoesNotAbort ==
    /\ [][(BindingStep /\ SetFailedBefore)
            => LET arg == arguments[exec.i]
                   entry == exec'.log[exec.i]
                   expected == ObtainedValue(arg, kernels, entry.get_error)
               IN  /\ entry.value = expected
                   /\ IsSome(expected) <=> entry.set \in {"ok", "error"}
                   /\ entry.set = "ok"
                        => /\ arg.name \in DOMAIN kernels'
                           /\ kernels'[arg.name] = Unwrap(expected)]_vars
    /\ [][(/\ phase = "execute" /\ exec.pc = "bind"
           /\ Len(exec'.log) > Len(exec.log)
           /\ exec'.log[Len(exec'.log)].set = "error")
            => /\ phase' = "execute" /\ exec'.pc = "bind"
               /\ exec'.i = exec.i + 1
               /\ tree' = tree /\ patches' = patches]_vars
    /\ [](ExecuteReturned =>
            /\ exec.control = "Continue"
            /\ Len(exec.log) = Len(arguments)
            /\ patches = <<>>
            /\ tree[Root].compilation_messages = None)

\* C11 witness: the set of n = {{x}} failed, the literal argument x after it
\* was set, and execute returned Continue.
C11_Witness ==
    /\ ExecuteReturned
    /\ exec.control = "Continue"
    /\ arguments = <<Argument(VarN, CodeWrappedX, None),
                     Argument(VarX, <<>>, Some(Literal))>>
    /\ exec.log[1].set = "error"
    /\ exec.log[2].set = "ok"
    /\ kernels[VarX] = Literal
    /\ VarN \notin DOMAIN kernels

\* The include's execute is in its argument-binding sequence.
Binding == phase = "execute" /\ exec.pc = "bind" /\ arguments /= <<>>

\* C12: with the kernels shared, execute holds the write handle from before
\* the first get until after the last set of its arguments; while it does, no
\* other client holds or obtains a handle and the kernels change only by the
\* node's own bindings; no client obtains a handle on kernels in which only
\* some of the node's arguments are bound.
C12_ExclusiveWhileBinding ==
    /\ [](Binding => (exec.lock /\ access.pc = "idle"))
    /\ [](exec.lock => access.pc = "idle")
    /\ [][Binding => access' = access]_vars
    /\ [][(Binding /\ kernels' /= kernels)
            => Len(exec'.log) = Len(exec.log) + 1]_vars
    /\ [](access.pc = "held" =>
            (access.during => (arguments = <<>> /\ access.bound = 0)))

\* C12 witness: another executor wrote x between two runs of a node with two
\* arguments; the second run has bound one of them and holds the handle.
C12_Witness ==
    /\ Binding
    /\ Len(arguments) = 2
    /\ Len(exec.log) = 1
    /\ exec.lock
    /\ access.who = "executor" /\ access.handle = "write"
    /\ access.pc = "idle"
    /\ access.seen /= exec.start

\* The node's bindings are in the kernels k: every name holds the value of the
\* last successful set of it in this execute call.
BindingsIn(k) ==
    \A i \in 1..Len(arguments) :
        LastSetOfName(i) =>
            /\ arguments[i].name \in DOMAIN k
            /\ k[arguments[i].name] = Unwrap(exec.log[i].value)

\* C13: when execute returns Continue, on every path through the loop, every
\* argument has been gone through and the write handle is released; a node of
\* the content is visited only after that, can then obtain a handle of the
\* kernels, and the first one to do so finds in them the bindings the node
\* made.
C13_ReleasedBeforeChildren ==
    /\ []((ExecuteReturned \/ exec.control = "Continue") =>
            /\ ~exec.lock
            /\ exec.control = "Continue"
            /\ Len(exec.log) = Len(arguments))
    /\ []((ExecuteReturned /\ access.pc = "idle") =>
            \A handle \in Handles : ENABLED AccessAcquire("child", handle))
    /\ []((access.pc = "held" /\ access.who = "child") =>
            (~access.during /\ access.bound = Len(arguments)))
    /\ [][(access.who = "none" /\ access'.who = "child")
            => /\ ExecuteReturned
               /\ ~exec.lock
               /\ access'.seen = kernels
               /\ BindingsIn(access'.seen)]_vars

\* C13 witness: a run with a lookup error and a set error has returned and a
\* node of the content holds the write handle.
C13_Witness ==
    /\ ExecuteReturned
    /\ Len(arguments) = 2
    /\ exec.log[1].get_error
    /\ exec.log[2].set = "error"
    /\ access.pc = "held" /\ access.who = "child" /\ access.handle = "write"
    /\ access.bound = 2

\* execute has run twice in a row on the node, every kernel call of both runs
\* succeeding, and the second run has returned.
ExecutedTwice == ExecuteReturned /\ exec.rerun /\ AllSucceeded(exec.log)

\* No argument's code refers to the name a later argument binds.
NoForwardReference ==
    \A i, j \in 1..Len(arguments) :
        (i < j /\ arguments[i].code /= <<>>)
            => RefersTo(arguments[i].code) /= arguments[j].name

\* C14 as stated: for every argument list, a second execute in a row leaves
\* the kernels as the first left them.
C14_AsStated == ExecutedTwice => kernels = exec.start

\* C14 (amended): when no argument's code refers to the name a later argument
\* of the node binds, a second execute in a row (kernel calls succeeding, no
\* other write in between) leaves the kernels as the first left them: the last
\* set of each bound name sets it again to the value it held.
C14_IdempotentWithoutForwardReference ==
    (ExecutedTwice /\ NoForwardReference) =>
        /\ kernels = exec.start
        /\ \A i \in 1..Len(arguments) :
            LastSetOfName(i)
                => Unwrap(exec.log[i].value) = exec.start[arguments[i].name]

\* C14 witness: x = "Acme" then n = {{x}}, executed twice from kernels without
\* x: the second run found n = "Acme" and set it again.
C14_Witness ==
    /\ ExecutedTwice
    /\ arguments = <<Argument(VarX, <<>>, Some(Literal)),
                     Argument(VarN, CodeWrappedX, None)>>
    /\ exec.start[VarN] = Literal
    /\ exec.log[2].set = "ok"
    /\ kernels[VarN] = Literal

\* ------------------------------------------------------------------ all phases: properties

\* The document is between phases and the last compile of its include block
\* ran on the source the block has now.
CompiledCurrentSource ==
    /\ phase = "idle"
    /\ IsSome(returned)
    /\ Unwrap(returned).call.node = Root
    /\ Unwrap(returned).call.source = tree[Root].source

\* The last compile of the document's include block to resolve its source
\* failed: the compile call that returned says so, or, that record gone, the
\* messages it left on the node.
FailureMessages ==
    ResolutionMessages("DecodeError") \o ResolutionMessages("NotBlocks")

LastResolutionFailed ==
    /\ phase /= "compile"
    /\ \/ /\ IsSome(returned)
          /\ Unwrap(returned).call.node = Root
          /\ Unwrap(returned).call.outcome \in {"DecodeError", "NotBlocks"}
       \/ /\ IsSome(tree[Root].compilation_messages)
          /\ \E i \in 1..Len(Unwrap(tree[Root].compilation_messages)) :
                \E j \in 1..Len(FailureMessages) :
                    Unwrap(tree[Root].compilation_messages)[i] = FailureMessages[j]

\* C15 as stated: whenever the source of the include block is empty (and has
\* been compiled) or its last resolution failed, its content is None.
C15_AsStated ==
    ((CompiledCurrentSource /\ tree[Root].source = <<>>) \/ LastResolutionFailed)
        => tree[Root].content = None

\* C15 (amended): content is None once the last resolution failed, through
\* every later prepare, execute and interrupt call and change of source; an
\* empty or blank source leaves content as it was: content changes only when a
\* compile resolves a non-blank source of the node or of a node above it.
C15_ContentNoneAfterFailure ==
    /\ [](LastResolutionFailed => tree[Root].content = None)
    /\ [][\A p \in Positions :
            tree'[p].content /= tree[p].content
                => /\ Entering
                   /\ ~AllWhitespace(Top.source)
                   /\ Top.source = tree[Top.node].source
                   /\ (p = Top.node \/ IsBelow(p, Top.node))]_vars

\* C15 witness: the resolution of the include block failed, the source was
\* then emptied and execute and interrupt have run since: content is still
\* None.
C15_Witness ==
    /\ LastResolutionFailed
    /\ tree[Root].source = <<>>
    /\ ExecuteReturned
    /\ phase_call.op = "interrupt"
    /\ tree[Root].content = None

\* ------------------------------------------------------------------ compile: the pop and the walk's end

\* The step in which a compile call handles the return of its nested walk.
NestedWalkReturned == Walking /\ Len(calls') < Len(calls)

WalkErrorMessage == [level |-> "Error", message |-> "walk"]

\* C16 as stated: when the nested compile of the fetched content ended with an
\* error, the pop owed is skipped and the pushed directory stays on the stack.
C16_AsStated ==
    (/\ IsSome(returned)
     /\ Unwrap(returned).control = "Break"
     /\ Unwrap(returned).call.pop_dir
     /\ Unwrap(returned).walk_error)
        => Unwrap(returned).exit_dirs
             = Append(Unwrap(returned).call.entry_dirs,
                      PushedDir(Unwrap(returned).call))

\* C16 (amended): the pop owed for a directory pushed by the resolution is
\* made once the nested compile of the fetched content has returned, whether
\* it completed or ended with an error: the error becomes a compilation
\* message of the node and the pushed directory is taken off the stack.
C16_PopAfterNestedWalkReturns ==
    [][NestedWalkReturned
        => /\ IsSome(returned')
           /\ Unwrap(returned').call.node = Top.node
           /\ Top.pop_dir =>
                /\ Last(directory_stack) = Some(PushedDir(Top))
                /\ directory_stack' = Pop(directory_stack)
                /\ directory_stack' = Top.entry_dirs
           /\ ~Top.pop_dir => directory_stack' = directory_stack
           /\ Unwrap(returned').walk_error =>
                /\ IsSome(tree'[Top.node].compilation_messages)
                /\ LET messages == Unwrap(tree'[Top.node].compilation_messages)
                   IN  messages[Len(messages)] = WalkErrorMessage]_vars

\* C16 witness: the walk of the content fetched from s/a ended with an error
\* before its blocks were all visited, and the directory /d/s pushed for it is
\* off the stack.
C16_Witness ==
    /\ IsSome(returned)
    /\ Unwrap(returned).control = "Break"
    /\ Unwrap(returned).call.node = Root
    /\ Unwrap(returned).call.source = SrcSub
    /\ Unwrap(returned).call.pop_dir
    /\ Unwrap(returned).walk_error
    /\ Unwrap(returned).call.next <= NumBlocks(tree, Root)
    /\ Unwrap(returned).call.entry_dirs = <<BaseDir>>
    /\ directory_stack = <<BaseDir>>

\* ------------------------------------------------------------------ prepare, interrupt: properties

\* The step in which a prepare or interrupt call on the include block returns.
PassThroughStep ==
    /\ phase_call' /= phase_call
    /\ phase_call'.op \in {"prepare", "interrupt"}

\* C17: a prepare or an interrupt call returns Continue and leaves the node
\* (source, content, compilationMessages), the DirectoryStack, the kernels and
\* the patch sink as they were; no compile, prepare, execute or interrupt call
\* on an include block returns Stop.
C17_PassThroughPhases ==
    /\ [][PassThroughStep
            => /\ phase_call'.control = "Continue"
               /\ UNCHANGED <<tree, directory_stack, kernels, patches,
                              arguments>>]_vars
    /\ [](phase_call.control \in {"none", "Continue"})
    /\ [](exec.control \in {"none", "Continue"})
    /\ [](IsSome(returned) => Unwrap(returned).control \in {"Break", "Continue"})

\* C17 witness: interrupt returned Continue on an include block that holds
\* content and messages from a compile whose patches are still in the sink.
C17_Witness ==
    /\ phase_call = [op |-> "interrupt", control |-> "Continue"]
    /\ IsSome(returned)
    /\ IsSome(tree[Root].content)
    /\ IsSome(tree[Root].compilation_messages)
    /\ patches /= <<>>
    /\ directory_stack = <<BaseDir>>
    /\ VarX \in DOMAIN kernels

\* ------------------------------------------------------------------ execute: sources and order

\* C18: the value of an argument has one source: with non-empty code only the
\* kernel's value of the referenced variable, and when the lookup yields
\* nothing the argument is not bound even if it carries a literal; with empty
\* code the literal; with empty code and no literal no set is made.
C18_OneAuthoritativeSource ==
    [][BindingStep
        => LET arg == arguments[exec.i]
               entry == exec'.log[exec.i]
               name == RefersTo(arg.code)
           IN  /\ arg.code /= <<>> =>
                    /\ (name \in DOMAIN kernels /\ ~entry.get_error)
                        => entry.value = Some(kernels[name])
                    /\ (name \notin DOMAIN kernels \/ entry.get_error)
                        => /\ entry.value = None
                           /\ entry.set = "none"
                           /\ kernels' = kernels
               /\ arg.code = <<>> =>
                    /\ entry.value = arg.value
                    /\ ~entry.get_error
                    /\ arg.value = None
                        => (entry.set = "none" /\ kernels' = kernels)
               /\ entry.set = "ok" =>
                    /\ DOMAIN kernels' = DOMAIN kernels \cup {arg.name}
                    /\ kernels'[arg.name] = Unwrap(entry.value)
               /\ entry.set /= "ok" => kernels' = kernels]_vars

\* C18 witness: n carries the code x and the literal "Acme"; x held "7", so n
\* is bound to "7", not to the literal.
C18_Witness ==
    /\ ExecuteReturned
    /\ arguments = <<Argument(VarN, CodeBareX, Some(Literal))>>
    /\ exec.start = [name \in {VarX} |-> "7"]
    /\ exec.log[1].set = "ok"
    /\ kernels[VarN] = "7"

\* The kernels k with name bound to value.
Bound(k, name, value) ==
    [v \in DOMAIN k \cup {name} |-> IF v = name THEN value ELSE k[v]]

\* The kernels execute started with, after the successful sets of its first n
\* arguments in declaration order.
RECURSIVE Replay(_)
Replay(n) ==
    IF n = 0 THEN exec.start
    ELSE IF exec.log[n].set = "ok"
         THEN Bound(Replay(n - 1), arguments[n].name, Unwrap(exec.log[n].value))
         ELSE Replay(n - 1)

\* C19: the loop takes the arguments one at a time in declaration order; the
\* lookup of argument j is made on the kernels as the sets of the arguments
\* before it left them, so a reference to the name of an earlier argument
\* yields the value just bound.
C19_SequentialBinding ==
    /\ []((phase = "execute" /\ exec.pc = "bind") =>
            /\ exec.i = Len(exec.log) + 1
            /\ kernels = Replay(Len(exec.log)))
    /\ [][BindingStep
            => LET arg == arguments[exec.i]
                   entry == exec'.log[exec.i]
               IN  /\ Len(exec'.log) = exec.i
                   /\ entry.value
                        = ObtainedValue(arg, Replay(exec.i - 1), entry.get_error)
                   /\ \A h \in 1..(exec.i - 1) :
                        (/\ arg.code /= <<>>
                         /\ ~entry.get_error
                         /\ RefersTo(arg.code) = arguments[h].name
                         /\ exec.log[h].set = "ok"
                         /\ \A g \in (h + 1)..(exec.i - 1) :
                                ~(arguments[g].name = arguments[h].name
                                  /\ exec.log[g].set = "ok"))
                            => entry.value = exec.log[h].value]_vars

\* C19 witness: x = "Acme" then n = {{x}}, with x = "5" before execute: n is
\* bound to "Acme".
C19_Witness ==
    /\ ExecuteReturned
    /\ arguments = <<Argument(VarX, <<>>, Some(Literal)),
                     Argument(VarN, CodeWrappedX, None)>>
    /\ exec.start = [name \in {VarX} |-> "5"]
    /\ exec.log[2].set = "ok"
    /\ kernels = [name \in {VarX, VarN} |-> Literal]

\* ------------------------------------------------------------------ compile: termination

\* The patches of the current compile walk that carry `property` of the node
\* at p: one per resolution (Content) and one per finished compile
\* (CompilationMessages) of the node.
PatchesOf(p, property) ==
    {a \in 1..Len(patches) :
        patches[a].node_id = p /\ patches[a].ops[1].property = property}

\* The compile calls on the node at p that are under way.
CallsOn(p) ==
    {i \in 1..Len(calls) : calls[i].kind = "compile" /\ calls[i].node = p}

\* C20: a compile walk ends: every compile call under way returns (Break or
\* Continue) and the phase comes to its end, the nesting of includes being
\* bounded and every decode returning; in one walk no include block is
\* resolved and decoded more than once, and each compile call that returns
\* Break has resolved and decoded its node exactly once (a blank source is not
\* resolved at all).
C20_CompileTerminates ==
    /\ (phase = "compile") ~> (phase = "idle")
    /\ \A n \in 1..(MaxDepth + 1) :
         (phase = "compile" /\ Len(calls) = n /\ Top.kind = "compile")
            ~> (phase = "idle" \/ Len(calls) < n \/ Top.kind = "walk")
    /\ [](\A p \in Positions :
            /\ Cardinality(PatchesOf(p, "Content")) <= 1
            /\ Cardinality(PatchesOf(p, "CompilationMessages")) <= 1
            /\ Cardinality(CallsOn(p)) <= 1)
    /\ []((phase = "compile" /\ IsSome(returned)) =>
            LET r == Unwrap(returned)
            IN  /\ r.control \in {"Break", "Continue"}
                /\ Cardinality(PatchesOf(r.call.node, "Content"))
                     = IF r.control = "Break" THEN 1 ELSE 0)
    /\ [][(phase = "compile" /\ Len(patches') > Len(patches))
            => (Entering \/ Walking)]_vars

\* C20 witness: a walk over two levels of includes has ended, each of the two
\* include blocks resolved once.
C20_Witness ==
    /\ phase = "idle"
    /\ IsSome(returned)
    /\ Unwrap(returned).call.node = Root
    /\ Unwrap(returned).control = "Break"
    /\ ~Unwrap(returned).walk_error
    /\ tree[<<2>>].kind = "IncludeBlock"
    /\ IsSome(tree[<<2>>].content)
    /\ Cardinality(PatchesOf(Root, "Content")) = 1
    /\ Cardinality(PatchesOf(<<2>>, "Content")) = 1

====
